---- MODULE Spec2Model ----
(***************************************************************************)
(* Classical arithmetic engine of the Shor factoring demonstration:        *)
(*   find_period_classical, sieve, get_primes_sieve, get_semiprime         *)
(* (notebook code cells) and the classical post-processing step            *)
(* gcd(x^(r/2) +- 1, N) described in the notebook's opening cell.          *)
(*                                                                         *)
(* One behaviour of the model is one top-level call.  `entry` names the    *)
(* function that was called, `pc` the position inside it, and every        *)
(* function has a frame (a record of its parameters and locals, under the  *)
(* names the source gives them).  dr is the frame of the driver, il holds  *)
(* two sieve generators that are advanced side by side.                    *)
(***************************************************************************)
EXTENDS Integers, Sequences, FiniteSets, TLC

VARIABLES entry, pc, err, fp, sv, gp, sp, rc, dr, il

vars == <<entry, pc, err, fp, sv, gp, sp, rc, dr, il>>

----------------------------------------------------------------------------
(* Bounds of the model *)

\* largest modulus N handed to find_period_classical / the recovery step
MaxN == 21
\* largest base x (bases above N are unreduced bases)
MaxX == 23
\* largest argument n of get_primes_sieve / get_semiprime
MaxBound == 30
\* largest period r handed to the recovery step on its own
MaxR == 8
\* largest retry cap handed to the driver
MaxCap == 2
\* number of values taken from each of two sieve generators run side by side
MaxYields == 13

\* smallest argument n of get_primes_sieve / get_semiprime
MinBound == 0 - 2
\* smallest period r handed to the recovery step on its own
MinR == 0 - 2
\* iteration cap of the brute-force loop; it only stops runs whose running
\* product can never become 1, a returning run needs at most MaxN iterations
MaxIter == MaxN + 2

----------------------------------------------------------------------------
(* Arithmetic: divisibility and primality by definition, used to state the *)
(* properties; modular exponentiation, also used by the recovery step      *)

Divides(d, k) == k % d = 0

IsPrime(k) == k > 1 /\ \A d \in 2..(k - 1) : ~Divides(d, k)

\* b^e mod m, reduced at every step
RECURSIVE PowMod(_, _, _)
PowMod(b, e, m) == IF e = 0 THEN 1 % m ELSE (PowMod(b, e - 1, m) * b) % m

\* common divisors, by definition
CommonDivisors(a, b) == {d \in 1..b : Divides(d, a) /\ Divides(d, b)}

Coprime(a, b) == CommonDivisors(a, b) = {1}

----------------------------------------------------------------------------
(* Python values *)

\* Python's None, as returned by D.pop(q, None); no prime is 0
None == 0

\* an empty dict
EmptyDict == [k \in {} |-> 0]

\* D[k] = v
DictSet(D, k, v) == [kk \in (DOMAIN D) \cup {k} |-> IF kk = k THEN v ELSE D[kk]]

\* D.pop(k, None): the value
DictPopValue(D, k) == IF k \in DOMAIN D THEN D[k] ELSE None

\* a slip in the lookup: D.get(k) in place of D.pop(k, None)
DictPopRestKept(D, k) == D

\* D.pop(k, None): the dict afterwards
DictPopRest(D, k) == [kk \in (DOMAIN D) \ {k} |-> D[kk]]

----------------------------------------------------------------------------
(* find_period_classical(x, N) *)

\* a slip in the initial count: n = 0
FpEnterCountFromZero(x, N) == [x |-> x, N |-> N, n |-> 0, t |-> x]

\* n = 1; t = x
FpEnter(x, N) == [x |-> x, N |-> N, n |-> 1, t |-> x]

\* a slip in the loop test: while t != 0
FpCondZero(f) == f.t # 0

\* while t != 1
FpCond(f) == f.t # 1

\* a slip in the loop body: the count goes up by 2
FpBodyCountTwice(f) == [f EXCEPT !.t = (f.t * f.x) % f.N, !.n = f.n + 2]

\* t *= x; t %= N; n += 1
FpBody(f) == [f EXCEPT !.t = (f.t * f.x) % f.N, !.n = f.n + 1]

FpIdle == [x |-> 0, N |-> 0, n |-> 0, t |-> 0]

----------------------------------------------------------------------------
(* sieve(): the generator's frame is a record                              *)
(*   pc  "start" (not yet run), "yield" (suspended at a yield, val is the  *)
(*       value handed out), "for" (about to take the next q),              *)
(*       "while" (at the test of the inner loop)                           *)
(*   it  the next value of itertools.islice(itertools.count(3), 0, None, 2)*)
(*   D, q, p, x  the locals                                                *)

\* a generator object that has not run yet
SieveNew == [pc |-> "start", D |-> EmptyDict, it |-> 3, q |-> 0, p |-> None,
             x |-> 0, val |-> 0]

\* D = {}; yield 2
SieveFirst(s) == [s EXCEPT !.D = EmptyDict, !.pc = "yield", !.val = 2]

\* resumption after a yield: control goes back to the for statement
SieveResume(s) == [s EXCEPT !.pc = "for"]

\* if p is None: D[q*q] = q; yield q
SievePrime(s) == [s EXCEPT !.D = DictSet(s.D, s.q * s.q, s.q),
                           !.pc = "yield", !.val = s.q]

\* else: x = p + q
SieveComposite(s) == [s EXCEPT !.x = s.p + s.q, !.pc = "while"]

\* for q in islice(count(3), 0, None, 2): p = D.pop(q, None); if p is None ...
SieveFor(s) ==
    LET s1 == [s EXCEPT !.q = s.it, !.it = s.it + 2]
        s2 == [s1 EXCEPT !.p = DictPopValue(s1.D, s1.q),
                         !.D = DictPopRest(s1.D, s1.q)]
    IN  IF s2.p = None THEN SievePrime(s2) ELSE SieveComposite(s2)

\* x & 1
IsOdd(k) == k % 2 = 1

\* a slip in the inner loop's test: the parity of x is not looked at
SieveWhileCondNoParity(s) == s.x \in DOMAIN s.D

\* a slip in the inner loop's test: only the parity of x is looked at
SieveWhileCondNoKeyTest(s) == ~IsOdd(s.x)

\* while x in D or not (x&1)
SieveWhileCond(s) == s.x \in DOMAIN s.D \/ ~IsOdd(s.x)

\* x += p   /   (loop exit) D[x] = p
SieveWhile(s) ==
    IF SieveWhileCond(s)
    THEN [s EXCEPT !.x = s.x + s.p]
    ELSE [s EXCEPT !.D = DictSet(s.D, s.x, s.p), !.pc = "for"]

\* one step of a running generator (it is not suspended at a yield)
SieveStep(s) ==
    CASE s.pc = "start" -> SieveFirst(s)
      [] s.pc = "for"   -> SieveFor(s)
      [] s.pc = "while" -> SieveWhile(s)

----------------------------------------------------------------------------
(* get_primes_sieve(n) *)

\* a slip in the bound: lambda p: p<=n
TakePredInclusive(p, n) == p <= n

\* lambda p: p<n
TakePred(p, n) == p < n

\* L = list(itertools.takewhile(..., sieve())): nothing consumed yet
GpEnter(n) == [n |-> n, L |-> <<>>]

GpIdle == [n |-> 0, L |-> <<>>]

----------------------------------------------------------------------------
(* get_semiprime(n) *)

\* random.randrange(l): the values it can return; none when l <= 0, where
\* it raises ValueError("empty range for randrange()")
Randrange(l) == 0..(l - 1)

\* primes[i], Python's 0-based indexing
Index(primes, i) == primes[i + 1]

\* a slip in the result: return p+q
SpResultSum(f) == f.p + f.q

\* return p*q
SpResult(f) == f.p * f.q

\* the frame on entry; calls counts the calls of random.randrange made,
\* indexed the list indexings made, N is the value returned
SpEnter(n) == [n |-> n, primes |-> <<>>, l |-> 0, p |-> 0, q |-> 0, N |-> 0,
               calls |-> 0, indexed |-> 0]

SpIdle == SpEnter(0)

----------------------------------------------------------------------------
(* Classical post-processing (FactorRecoverer): the notebook states it in  *)
(* prose, "p and q can be found by computing gcd(x^{r/2} +- 1, N) as long  *)
(* as x^{r/2} != +-1"; the order of its checks and the errors it signals   *)
(* are those of the design's component description.                        *)

Abs(a) == IF a < 0 THEN 0 - a ELSE a

\* gcd(a, b) by Euclid's algorithm
RECURSIVE Euclid(_, _)
Euclid(a, b) == IF b = 0 THEN a ELSE Euclid(b, a % b)

\* a slip in Euclid's algorithm: it stops after the first division
GCDOneDivision(a, b) == IF Abs(a) % Abs(b) = 0 THEN Abs(b) ELSE 1

GCD(a, b) == Euclid(Abs(a), Abs(b))

\* a slip in the exponent: x^r mod N, the period not halved
HalfPowerNotHalved(x, r, N) == PowMod(x, r, N)

\* y = x^(r/2) mod N
HalfPower(x, r, N) == PowMod(x, r \div 2, N)

\* a slip in the test: only x^(r/2) = 1 is looked for, -1 is forgotten
TrivialRootOnlyOne(y, N) == y = 1 % N

\* x^(r/2) = +-1 (mod N): the trivial square roots of 1
TrivialRoot(y, N) == y = 1 % N \/ y = (N - 1) % N

\* a slip in the last step: x^(r/2) - 1 and x^(r/2) + 1 themselves
GcdPairNoGcd(y, N) == <<y - 1, y + 1>>

\* gcd(x^(r/2) - 1, N) and gcd(x^(r/2) + 1, N)
GcdPair(y, N) == <<GCD(y - 1, N), GCD(y + 1, N)>>

\* a gcd with N that is neither 1 nor N
Nontrivial(d, N) == d # 1 /\ d # N

\* a slip in the precondition: the parity of r is not looked at
InvalidPeriodNoParity(r) == r <= 0

\* recovery is defined only for an even period r >= 2
InvalidPeriod(r) == r <= 0 \/ r % 2 # 0

\* the frame on entry; computed names the intermediate values obtained so
\* far ("y", "gcd"), divisors is the set of divisors returned
RcEnter(x, N, r) == [x |-> x, N |-> N, r |-> r, y |-> 0, dplus |-> 0,
                     dminus |-> 0, divisors |-> {}, computed |-> {}]

RcIdle == RcEnter(0, 0, 0)

\* the nontrivial ones among the two gcds
RcDivisors(f) == {d \in {f.dplus, f.dminus} : Nontrivial(d, f.N)}

----------------------------------------------------------------------------
(* ShorDriver: the loop the notebook describes in prose ("pick a random    *)
(* integer x ..., compute gcd(x, N) ..., repeat these steps with different *)
(* random choices of x until r is even, then ... gcd(x^{r/2} +- 1, N)"),   *)
(* as the state machine of the design: PickBase, CheckGCD, FindPeriod,     *)
(* CheckParity, Recover, Retry, Done, NoFactorFound.                       *)
(*   retries   Retry -> PickBase transitions taken                         *)
(*   sampled   bases drawn so far                                          *)
(*   reported  the attempt count NoFactorFound reports                     *)
(*   factors   the factor pair of Done, <<>> until then                    *)

DrEnter(N, cap) == [N |-> N, cap |-> cap, state |-> "PickBase", x |-> 0,
                    g |-> 0, r |-> 0, retries |-> 0, sampled |-> 0,
                    reported |-> 0, factors |-> <<>>]

DrIdle == [DrEnter(0, 0) EXCEPT !.state = "Idle"]

\* PickBase: the bases x can be sampled from, [2, N-1]
Bases(N) == 2..(N - 1)

\* CheckGCD: g is a factor already
Shortcut(g, N) == g \notin {1, N}

\* a slip in CheckParity: every period is taken for even
OddPeriodNever(r) == FALSE

\* CheckParity: r is odd
OddPeriod(r) == r % 2 = 1

\* a slip in Retry: one retry more than the cap is allowed
BudgetLeftInclusive(d) == d.retries <= d.cap

\* Retry: the cap on retries is not yet reached
BudgetLeft(d) == d.retries < d.cap

\* the factor pair a divisor d of N gives
FactorPair(d, N) == <<d, N \div d>>

----------------------------------------------------------------------------
(* Two sieve generators side by side.  Every invocation of sieve() runs    *)
(* D = {}: it makes a dict object of its own.  heap holds the dict         *)
(* objects, DictOf(i) is the one generator i works on.                     *)

\* a slip: one dict shared by all invocations (a module-level or default-
\* argument dict)
DictOfShared(i) == 1

\* D = {} in invocation i: its own dict object
DictOf(i) == i

\* generator i as it stands: its frame, with the dict object it works on
IlGen(f, i) == [f.gen[i] EXCEPT !.D = f.heap[DictOf(i)]]

\* one step of a generator inside next(): a suspended one is resumed, a
\* running one goes on
IlStep(s) == IF s.pc = "yield" THEN SieveResume(s) ELSE SieveStep(s)

\* the frame: running is the generator whose next() is being executed (0:
\* none, the consumer is between two calls); solo[i] is generator i as a
\* run of its own, with nothing else in the process, would have it
IlEnter == [gen |-> <<SieveNew, SieveNew>>, heap |-> <<EmptyDict, EmptyDict>>,
            out |-> << <<>>, <<>> >>, running |-> 0,
            solo |-> <<SieveNew, SieveNew>>]

IlIdle == [gen |-> <<>>, heap |-> <<>>, out |-> <<>>, running |-> 0,
           solo |-> <<>>]

\* next() on generator i, one step of it: the generator works on its dict
\* object; at the yield the value is handed to the consumer of i
IlAdvance(f, i) ==
    LET s2 == IlStep(IlGen(f, i))
    IN  [f EXCEPT !.gen[i] = s2, !.heap[DictOf(i)] = s2.D,
                  !.solo[i] = IlStep(f.solo[i]),
                  !.out[i] = IF s2.pc = "yield" THEN Append(@, s2.val) ELSE @,
                  !.running = IF s2.pc = "yield" THEN 0 ELSE i]

----------------------------------------------------------------------------
(* Initial states: one call of one function, with its arguments *)

Entries == {"find_period", "get_primes", "get_semiprime", "recover", "roundtrip",
            "driver", "interleave"}

InitFindPeriod ==
    /\ entry = "find_period"
    /\ pc = "fp_loop"
    /\ \E x \in 2..MaxX, N \in 2..MaxN : fp = FpEnter(x, N)
    /\ sv = SieveNew /\ gp = GpIdle /\ sp = SpIdle /\ rc = RcIdle

\* the period is looked for only for a base coprime to N
InitRoundTrip ==
    /\ entry = "roundtrip"
    /\ pc = "fp_loop"
    /\ \E x \in 2..MaxX, N \in 2..MaxN : GCD(x, N) = 1 /\ fp = FpEnter(x, N)
    /\ sv = SieveNew /\ gp = GpIdle /\ sp = SpIdle /\ rc = RcIdle

InitGetPrimes ==
    /\ entry = "get_primes"
    /\ pc = "gp_next"
    /\ \E n \in MinBound..MaxBound : gp = GpEnter(n)
    /\ sv = SieveNew /\ fp = FpIdle /\ sp = SpIdle /\ rc = RcIdle

InitGetSemiprime ==
    /\ entry = "get_semiprime"
    /\ pc = "sp_call"
    /\ \E n \in MinBound..MaxBound : sp = SpEnter(n)
    /\ sv = SieveNew /\ fp = FpIdle /\ gp = GpIdle /\ rc = RcIdle

InitRecover ==
    /\ entry = "recover"
    /\ pc = "rc_check"
    /\ \E x \in 1..MaxX, N \in 1..MaxN, r \in MinR..MaxR : rc = RcEnter(x, N, r)
    /\ sv = SieveNew /\ fp = FpIdle /\ gp = GpIdle /\ sp = SpIdle

\* the driver is given N >= 4 and a retry cap
InitDriver ==
    /\ entry = "driver"
    /\ pc = "driver"
    /\ \E N \in 4..MaxN, cap \in 0..MaxCap : dr = DrEnter(N, cap)
    /\ il = IlIdle
    /\ sv = SieveNew /\ fp = FpIdle /\ gp = GpIdle /\ sp = SpIdle /\ rc = RcIdle

\* two invocations of sieve(), neither advanced yet
InitInterleave ==
    /\ entry = "interleave"
    /\ pc = "il_next"
    /\ il = IlEnter
    /\ dr = DrIdle
    /\ sv = SieveNew /\ fp = FpIdle /\ gp = GpIdle /\ sp = SpIdle /\ rc = RcIdle

Init ==
    /\ err = "none"
    /\ \/ InitFindPeriod /\ dr = DrIdle /\ il = IlIdle
       \/ InitRoundTrip /\ dr = DrIdle /\ il = IlIdle
       \/ InitGetPrimes /\ dr = DrIdle /\ il = IlIdle
       \/ InitGetSemiprime /\ dr = DrIdle /\ il = IlIdle
       \/ InitRecover /\ dr = DrIdle /\ il = IlIdle
       \/ InitDriver
       \/ InitInterleave

----------------------------------------------------------------------------
(* find_period_classical: one iteration of the loop, and the return *)

FpIterate ==
    /\ pc = "fp_loop"
    /\ FpCond(fp)
    /\ fp.n < MaxIter
    /\ fp' = FpBody(fp)
    /\ UNCHANGED <<dr, il, entry, pc, err, sv, gp, sp, rc>>

\* return n; in the round trip an even period goes on to the recovery
\* step, an odd one ends the attempt
FpReturn ==
    /\ pc = "fp_loop"
    /\ ~FpCond(fp)
    /\ IF entry = "roundtrip" /\ fp.n % 2 = 0
       THEN pc' = "rc_check" /\ rc' = RcEnter(fp.x, fp.N, fp.n)
       ELSE pc' = "returned" /\ rc' = rc
    /\ UNCHANGED <<dr, il, entry, err, fp, sv, gp, sp>>

----------------------------------------------------------------------------
(* get_primes_sieve: takewhile pulls the generator *)

\* the generator runs one step towards its next yield
GpAdvance ==
    /\ pc = "gp_next"
    /\ sv.pc # "yield"
    /\ sv' = SieveStep(sv)
    /\ UNCHANGED <<dr, il, entry, pc, err, fp, gp, sp, rc>>

\* the value yielded satisfies the predicate: it joins the list, and the
\* generator is resumed for the next one
GpTake ==
    /\ pc = "gp_next"
    /\ sv.pc = "yield"
    /\ TakePred(sv.val, gp.n)
    /\ gp' = [gp EXCEPT !.L = Append(gp.L, sv.val)]
    /\ sv' = SieveResume(sv)
    /\ UNCHANGED <<dr, il, entry, pc, err, fp, sp, rc>>

\* the first value failing the predicate ends takewhile: return L
GpStop ==
    /\ pc = "gp_next"
    /\ sv.pc = "yield"
    /\ ~TakePred(sv.val, gp.n)
    /\ IF entry = "get_semiprime"
       THEN /\ pc' = "sp_draw_p"
            /\ sp' = [sp EXCEPT !.primes = gp.L, !.l = Len(gp.L)]
       ELSE /\ pc' = "returned"
            /\ sp' = sp
    /\ UNCHANGED <<dr, il, entry, err, fp, sv, gp, rc>>

----------------------------------------------------------------------------
(* get_semiprime *)

\* primes = get_primes_sieve(n): the call
SpCall ==
    /\ pc = "sp_call"
    /\ gp' = GpEnter(sp.n)
    /\ sv' = SieveNew
    /\ pc' = "gp_next"
    /\ UNCHANGED <<dr, il, entry, err, fp, sp, rc>>

\* p = primes[random.randrange(l)]
SpDrawP ==
    /\ pc = "sp_draw_p"
    /\ IF Randrange(sp.l) = {}
       THEN /\ sp' = [sp EXCEPT !.calls = @ + 1]
            /\ err' = "ValueError"
            /\ pc' = "raised"
       ELSE /\ \E i \in Randrange(sp.l) :
                 sp' = [sp EXCEPT !.p = Index(sp.primes, i),
                                  !.calls = @ + 1, !.indexed = @ + 1]
            /\ err' = err
            /\ pc' = "sp_draw_q"
    /\ UNCHANGED <<dr, il, entry, fp, sv, gp, rc>>

\* q = primes[random.randrange(l)]
SpDrawQ ==
    /\ pc = "sp_draw_q"
    /\ IF Randrange(sp.l) = {}
       THEN /\ sp' = [sp EXCEPT !.calls = @ + 1]
            /\ err' = "ValueError"
            /\ pc' = "raised"
       ELSE /\ \E i \in Randrange(sp.l) :
                 sp' = [sp EXCEPT !.q = Index(sp.primes, i),
                                  !.calls = @ + 1, !.indexed = @ + 1]
            /\ err' = err
            /\ pc' = "sp_return"
    /\ UNCHANGED <<dr, il, entry, fp, sv, gp, rc>>

\* return p*q
SpReturn ==
    /\ pc = "sp_return"
    /\ sp' = [sp EXCEPT !.N = SpResult(sp)]
    /\ pc' = "returned"
    /\ UNCHANGED <<dr, il, entry, err, fp, sv, gp, rc>>

----------------------------------------------------------------------------
(* FactorRecoverer *)

\* an odd or non-positive period is refused at once
RcCheck ==
    /\ pc = "rc_check"
    /\ IF InvalidPeriod(rc.r)
       THEN err' = "InvalidPeriod" /\ pc' = "raised"
       ELSE err' = err /\ pc' = "rc_power"
    /\ UNCHANGED <<dr, il, entry, fp, sv, gp, sp, rc>>

\* step 1 and 2: y = x^(r/2) mod N, and the trivial square roots
RcPower ==
    /\ pc = "rc_power"
    /\ LET y == HalfPower(rc.x, rc.r, rc.N)
       IN  /\ rc' = [rc EXCEPT !.y = y, !.computed = @ \cup {"y"}]
           /\ IF TrivialRoot(y, rc.N)
              THEN err' = "RecoveryFailed" /\ pc' = "raised"
              ELSE err' = err /\ pc' = "rc_gcd"
    /\ UNCHANGED <<dr, il, entry, fp, sv, gp, sp>>

\* step 3: the two gcds; the nontrivial ones are returned
RcGcd ==
    /\ pc = "rc_gcd"
    /\ LET g == GcdPair(rc.y, rc.N)
           f == [rc EXCEPT !.dplus = g[1], !.dminus = g[2],
                           !.computed = @ \cup {"gcd"}]
       IN  IF RcDivisors(f) = {}
           THEN /\ rc' = f
                /\ err' = "RecoveryFailed"
                /\ pc' = "raised"
           ELSE /\ rc' = [f EXCEPT !.divisors = RcDivisors(f)]
                /\ err' = err
                /\ pc' = "returned"
    /\ UNCHANGED <<dr, il, entry, fp, sv, gp, sp>>

----------------------------------------------------------------------------
(* ShorDriver *)

\* PickBase: sample x in [2, N-1]
DrPickBase ==
    /\ entry = "driver" /\ pc = "driver" /\ dr.state = "PickBase"
    /\ \E x \in Bases(dr.N) :
          dr' = [dr EXCEPT !.x = x, !.sampled = @ + 1, !.state = "CheckGCD"]
    /\ UNCHANGED <<il, entry, pc, err, fp, sv, gp, sp, rc>>

\* CheckGCD: g = gcd(x, N); a g other than 1 and N ends the run in Done,
\* otherwise the period of x is asked for
DrCheckGCD ==
    /\ entry = "driver" /\ pc = "driver" /\ dr.state = "CheckGCD"
    /\ LET g == GCD(dr.x, dr.N)
       IN  IF Shortcut(g, dr.N)
           THEN /\ dr' = [dr EXCEPT !.g = g, !.state = "Done",
                                    !.factors = FactorPair(g, dr.N)]
                /\ pc' = pc
                /\ fp' = fp
           ELSE /\ dr' = [dr EXCEPT !.g = g, !.state = "FindPeriod"]
                /\ pc' = "fp_loop"
                /\ fp' = FpEnter(dr.x, dr.N)
    /\ UNCHANGED <<il, entry, err, sv, gp, sp, rc>>

\* FindPeriod: find_period_classical has returned r
DrPeriodFound ==
    /\ entry = "driver" /\ pc = "returned" /\ dr.state = "FindPeriod"
    /\ dr' = [dr EXCEPT !.r = fp.n, !.state = "CheckParity"]
    /\ pc' = "driver"
    /\ UNCHANGED <<il, entry, err, fp, sv, gp, sp, rc>>

\* CheckParity: an odd r goes to Retry, an even one to Recover
DrCheckParity ==
    /\ entry = "driver" /\ pc = "driver" /\ dr.state = "CheckParity"
    /\ IF OddPeriod(dr.r)
       THEN /\ dr' = [dr EXCEPT !.state = "Retry"]
            /\ pc' = pc
            /\ rc' = rc
       ELSE /\ dr' = [dr EXCEPT !.state = "Recover"]
            /\ pc' = "rc_check"
            /\ rc' = RcEnter(dr.x, dr.N, dr.r)
    /\ UNCHANGED <<il, entry, err, fp, sv, gp, sp>>

\* Recover: the recovery step returned divisors: Done with the factor pair
DrRecoverDone ==
    /\ entry = "driver" /\ pc = "returned" /\ dr.state = "Recover"
    /\ \E d \in rc.divisors :
          dr' = [dr EXCEPT !.state = "Done", !.factors = FactorPair(d, dr.N)]
    /\ pc' = "driver"
    /\ UNCHANGED <<il, entry, err, fp, sv, gp, sp, rc>>

\* Recover: RecoveryFailed is absorbed, the driver goes to Retry (an
\* InvalidPeriod is not handled: it is surfaced as raised)
DrRecoverFailed ==
    /\ entry = "driver" /\ pc = "raised" /\ dr.state = "Recover"
    /\ err = "RecoveryFailed"
    /\ dr' = [dr EXCEPT !.state = "Retry"]
    /\ err' = "none"
    /\ pc' = "driver"
    /\ UNCHANGED <<il, entry, fp, sv, gp, sp, rc>>

\* Retry: back to PickBase while the cap allows it, NoFactorFound with the
\* attempt count otherwise
DrRetry ==
    /\ entry = "driver" /\ pc = "driver" /\ dr.state = "Retry"
    /\ IF BudgetLeft(dr)
       THEN dr' = [dr EXCEPT !.retries = @ + 1, !.state = "PickBase"]
       ELSE dr' = [dr EXCEPT !.state = "NoFactorFound",
                             !.reported = dr.retries + 1]
    /\ UNCHANGED <<il, entry, pc, err, fp, sv, gp, sp, rc>>

----------------------------------------------------------------------------
(* Two sieve generators: next() on the one or on the other.  The process  *)
(* is single-threaded: a next() under way runs to its yield before the     *)
(* consumer can call next() again, on either generator.                    *)

IlNextA ==
    /\ entry = "interleave" /\ pc = "il_next"
    /\ \/ il.running = 1
       \/ il.running = 0 /\ Len(il.out[1]) < MaxYields
    /\ il' = IlAdvance(il, 1)
    /\ UNCHANGED <<dr, entry, pc, err, fp, sv, gp, sp, rc>>

IlNextB ==
    /\ entry = "interleave" /\ pc = "il_next"
    /\ \/ il.running = 2
       \/ il.running = 0 /\ Len(il.out[2]) < MaxYields
    /\ il' = IlAdvance(il, 2)
    /\ UNCHANGED <<dr, entry, pc, err, fp, sv, gp, sp, rc>>

----------------------------------------------------------------------------

Next ==
    \/ FpIterate
    \/ FpReturn
    \/ GpAdvance
    \/ GpTake
    \/ GpStop
    \/ SpCall
    \/ SpDrawP
    \/ SpDrawQ
    \/ SpReturn
    \/ RcCheck
    \/ RcPower
    \/ RcGcd
    \/ DrPickBase
    \/ DrCheckGCD
    \/ DrPeriodFound
    \/ DrCheckParity
    \/ DrRecoverDone
    \/ DrRecoverFailed
    \/ DrRetry
    \/ IlNextA
    \/ IlNextB

Spec == Init /\ [][Next]_vars

\* the interpreter keeps executing a call that can take a step
FairSpec == Spec /\ WF_vars(Next)

----------------------------------------------------------------------------
(* Properties of find_period_classical *)

\* find_period_classical has returned (in the round trip its frame stays
\* as it was at the return)
FpReturned == entry \in {"find_period", "roundtrip"} /\ pc # "fp_loop"

\* r is the multiplicative order of x modulo N
IsOrder(r, x, N) ==
    /\ r >= 1
    /\ PowMod(x, r, N) = 1
    /\ \A k \in 1..(r - 1) : PowMod(x, k, N) # 1

\* C1: for N > 1 and a base x with 2 <= x <= N-1 coprime to N, the value
\* find_period_classical(x, N) returns is the multiplicative order of x
\* modulo N: r >= 1, x^r mod N = 1, and x^k mod N # 1 for 1 <= k < r.
C1_ReturnsOrder ==
    (FpReturned /\ fp.N > 1 /\ 2 <= fp.x /\ fp.x <= fp.N - 1
                /\ Coprime(fp.x, fp.N))
        => IsOrder(fp.n, fp.x, fp.N)

\* a call with a coprime base below N has returned an order above 2
C1_Witness ==
    /\ entry = "find_period" /\ pc = "returned"
    /\ fp.x = 7 /\ fp.N = 15 /\ fp.n = 4

\* C2: for N > 1 and a base x >= 2 coprime to N (reduced or not), the loop
\* of find_period_classical terminates, and the count n never exceeds N:
\* at most N modular multiplications are made.
C2_Terminates ==
    /\ [](entry \in {"find_period", "roundtrip"} /\ Coprime(fp.x, fp.N)
            => fp.n <= fp.N)
    /\ (entry \in {"find_period", "roundtrip"} /\ Coprime(fp.x, fp.N))
            ~> FpReturned

\* a call with a coprime base has returned n = N: the bound is met
C2_Witness ==
    /\ entry = "find_period" /\ pc = "returned"
    /\ Coprime(fp.x, fp.N) /\ fp.n = fp.N

----------------------------------------------------------------------------
(* Properties of sieve and get_primes_sieve *)

\* get_primes_sieve has returned its list L (inside get_semiprime its
\* frame stays as it was at the return)
GpReturned ==
    \/ entry = "get_primes" /\ pc = "returned"
    \/ entry = "get_semiprime" /\ pc \notin {"sp_call", "gp_next"}

\* the elements of a list
Elements(L) == {L[i] : i \in 1..Len(L)}

StrictlyIncreasing(L) == \A i \in 1..Len(L), j \in 1..Len(L) : i < j => L[i] < L[j]

\* the primes below n
PrimesBelow(n) == {k \in 2..(n - 1) : IsPrime(k)}

\* C3: for a bound n > 2, every element of get_primes_sieve(n) is prime,
\* the list is strictly increasing, and its first element is 2.
C3_PrimesIncreasing ==
    (GpReturned /\ gp.n > 2)
        => /\ Len(gp.L) >= 1 /\ gp.L[1] = 2
           /\ \A i \in 1..Len(gp.L) : IsPrime(gp.L[i])
           /\ StrictlyIncreasing(gp.L)

\* the list for n = 30 has been returned with its ten primes, 29 the last:
\* the odd composites 9, 15, 21, 25, 27 have gone through the sieve
C3_Witness ==
    /\ entry = "get_primes" /\ pc = "returned"
    /\ gp.n = 30 /\ Len(gp.L) = 10 /\ gp.L[10] = 29

\* C4: for every integer n, get_primes_sieve(n) terminates and returns
\* exactly the primes below n, each once: no value >= n, no prime below n
\* left out, and the empty list when n <= 2.
C4_ExactlyPrimesBelow ==
    /\ [](GpReturned
            => /\ Elements(gp.L) = PrimesBelow(gp.n)
               /\ Len(gp.L) = Cardinality(PrimesBelow(gp.n))
               /\ (gp.n <= 2 => gp.L = <<>>))
    /\ (entry \in {"get_primes", "get_semiprime"}) ~> GpReturned

\* the list for the prime bound n = 29 has been returned: it ends with 23
C4_Witness ==
    /\ entry = "get_primes" /\ pc = "returned"
    /\ gp.n = 29 /\ Len(gp.L) = 9 /\ gp.L[9] = 23

----------------------------------------------------------------------------
(* Properties of get_semiprime *)

\* the primes dividing k
PrimeFactors(k) == {d \in 2..k : IsPrime(d) /\ Divides(d, k)}

\* C5: for a bound n > 2 and every pair of draws, get_semiprime(n) returns
\* N = p*q with p and q both elements of get_primes_sieve(n); N >= 4, N is
\* composite and the primes dividing N are exactly p and q.  No error is
\* raised for such a bound.
C5_SemiprimeOfDrawnPrimes ==
    (entry = "get_semiprime" /\ sp.n > 2)
        => /\ pc # "raised"
           /\ pc = "returned"
                => /\ sp.N = sp.p * sp.q
                   /\ sp.primes = gp.L
                   /\ sp.p \in PrimesBelow(sp.n) /\ sp.q \in PrimesBelow(sp.n)
                   /\ sp.N >= 4 /\ ~IsPrime(sp.N)
                   /\ PrimeFactors(sp.N) = {sp.p, sp.q}

\* both draws gave the same prime: 9 = 3*3 has been returned
C5_Witness ==
    /\ entry = "get_semiprime" /\ pc = "returned"
    /\ sp.p = 3 /\ sp.q = 3 /\ sp.N = 9

\* C6: get_semiprime(n) with n <= 2 signals InvalidBound before any random
\* draw or list indexing takes place, and returns no number.
C6_InvalidBoundBeforeDraw ==
    (entry = "get_semiprime" /\ sp.n <= 2)
        => /\ pc # "returned"
           /\ sp.calls = 0 /\ sp.indexed = 0
           /\ pc = "raised" => err = "InvalidBound"

----------------------------------------------------------------------------
(* Properties of the recovery step *)

\* the recovery step has been entered (on its own or from the round trip)
RcEntered ==
    /\ entry \in {"recover", "roundtrip"}
    /\ pc \in {"rc_check", "rc_power", "rc_gcd", "returned", "raised"}
    /\ entry = "roundtrip" => fp.n % 2 = 0

\* the recovery step has ended: it returned divisors or signalled an error
RcEnded == RcEntered /\ pc \in {"returned", "raised"}

\* d divides N and is neither 1 nor N
ProperDivisor(d, N) == 1 < d /\ d < N /\ Divides(d, N)

\* C7: for N > 1, x coprime to N and an even r >= 2 with x^r mod N = 1,
\* if y = x^(r/2) mod N is neither 1 nor N-1 then one of gcd(y-1, N) and
\* gcd(y+1, N) is a divisor d of N with 1 < d < N, and the step returns
\* such divisors instead of signalling RecoveryFailed.
C7_RecoversDivisor ==
    (/\ RcEnded
     /\ rc.N > 1 /\ Coprime(rc.x, rc.N)
     /\ rc.r >= 2 /\ rc.r % 2 = 0 /\ PowMod(rc.x, rc.r, rc.N) = 1
     /\ PowMod(rc.x, rc.r \div 2, rc.N) \notin {1, rc.N - 1})
        => /\ pc = "returned" /\ err = "none"
           /\ rc.y = PowMod(rc.x, rc.r \div 2, rc.N)
           /\ ProperDivisor(rc.dplus, rc.N) \/ ProperDivisor(rc.dminus, rc.N)
           /\ rc.divisors # {}
           /\ \A d \in rc.divisors : ProperDivisor(d, rc.N)

\* recovery called on its own with x = 2, N = 21, r = 6 has returned 7 and 3
C7_Witness ==
    /\ entry = "recover" /\ pc = "returned"
    /\ rc.x = 2 /\ rc.N = 21 /\ rc.r = 6 /\ rc.y = 8
    /\ rc.divisors = {3, 7}

\* C8: for an even r >= 2, if y = x^(r/2) mod N is 1 or N-1 the step
\* signals RecoveryFailed and returns no divisor (N = 9, x = 2, r = 6,
\* y = 8 = N-1 is such a case).
C8_TrivialRootFails ==
    (/\ RcEnded
     /\ rc.r >= 2 /\ rc.r % 2 = 0
     /\ PowMod(rc.x, rc.r \div 2, rc.N) \in {1, rc.N - 1})
        => /\ pc = "raised" /\ err = "RecoveryFailed"
           /\ rc.divisors = {}

\* N = 9, x = 2: find_period_classical returned 6, y = 8, RecoveryFailed
C8_Witness ==
    /\ entry = "roundtrip" /\ pc = "raised" /\ err = "RecoveryFailed"
    /\ fp.x = 2 /\ fp.N = 9 /\ fp.n = 6
    /\ rc.r = 6 /\ rc.y = 8

\* C9: the step called with an odd period, or with r <= 0, signals
\* InvalidPeriod at once: no power y and no gcd is computed, no divisor is
\* returned, and the outcome is never RecoveryFailed.
C9_InvalidPeriodAtOnce ==
    (RcEntered /\ (rc.r <= 0 \/ rc.r % 2 = 1))
        => /\ pc \in {"rc_check", "raised"}
           /\ pc = "raised" => err = "InvalidPeriod"
           /\ rc.computed = {} /\ rc.divisors = {}
           /\ rc.y = 0 /\ rc.dplus = 0 /\ rc.dminus = 0

\* the step called with the odd period 3 has signalled InvalidPeriod
C9_Witness ==
    /\ entry = "recover" /\ pc = "raised" /\ err = "InvalidPeriod"
    /\ rc.r = 3

\* the ways of writing N as a product of two primes
Factorisations(N) == {pq \in (2..N) \X (2..N) :
                        IsPrime(pq[1]) /\ IsPrime(pq[2]) /\ pq[1] * pq[2] = N}

\* C10: round trip: for a semiprime N = p*q and x coprime to N whose
\* period r, as returned by find_period_classical, is even with
\* x^(r/2) mod N not in {1, N-1}, every divisor the step returns is p or q
\* (and it returns one).
C10_RoundTrip ==
    (/\ entry = "roundtrip" /\ RcEnded
     /\ rc.r = fp.n /\ rc.x = fp.x /\ rc.N = fp.N
     /\ Coprime(fp.x, fp.N)
     /\ PowMod(fp.x, fp.n \div 2, fp.N) \notin {1, fp.N - 1})
        => \A pq \in Factorisations(fp.N) :
              /\ pc = "returned"
              /\ rc.divisors # {}
              /\ rc.divisors \subseteq {pq[1], pq[2]}

\* N = 21 = 3*7, x = 2: period 6, y = 8, the divisors 7 and 3 are returned
C10_Witness ==
    /\ entry = "roundtrip" /\ pc = "returned"
    /\ fp.x = 2 /\ fp.N = 21 /\ fp.n = 6
    /\ rc.divisors = {3, 7}

----------------------------------------------------------------------------
(* Properties of the driver *)

DrTerminal == dr.state \in {"Done", "NoFactorFound"}

\* C11: for every N >= 4 (prime N included) and every sequence of sampled
\* bases, a driver run that starts in PickBase with a finite retry cap
\* reaches Done or NoFactorFound; it does not go through Retry forever.
C11_DriverTerminates ==
    (entry = "driver" /\ dr.state = "PickBase" /\ dr.sampled = 0) ~> DrTerminal

\* a run on the prime N = 7 with cap 2 has ended in NoFactorFound
C11_Witness ==
    /\ entry = "driver" /\ dr.N = 7 /\ dr.cap = 2
    /\ dr.state = "NoFactorFound" /\ dr.sampled = 3

\* C12: the number of Retry transitions taken never exceeds the cap;
\* NoFactorFound is entered only from Retry with the cap exhausted and no
\* factor pair produced; the attempt count it reports is the number of
\* bases actually sampled.
C12_RetryBudget ==
    /\ [](entry = "driver"
            => /\ dr.retries <= dr.cap
               /\ dr.state = "NoFactorFound"
                    => /\ dr.retries = dr.cap
                       /\ dr.factors = <<>>
                       /\ dr.reported = dr.sampled)
    /\ [][(entry = "driver" /\ dr.state # "NoFactorFound"
                            /\ dr'.state = "NoFactorFound")
            => /\ dr.state = "Retry"
               /\ dr.retries = dr.cap
               /\ dr.factors = <<>>]_vars

\* a run on N = 9 with cap 2 has reported three attempts
C12_Witness ==
    /\ entry = "driver" /\ dr.N = 9 /\ dr.cap = 2
    /\ dr.state = "NoFactorFound" /\ dr.reported = 3 /\ dr.retries = 2

\* the greatest common divisor, by definition
GreatestCommonDivisor(a, b) ==
    CHOOSE d \in CommonDivisors(a, b) : \A e \in CommonDivisors(a, b) : e <= d

\* C13: when the sampled base x in [2, N-1] has g = gcd(x, N) not in
\* {1, N}, the driver goes from CheckGCD to Done in one transition, with
\* the factor pair (g, N/g) and without a call of the period finder or of
\* the recovery step; Done is left no more; for a semiprime N = p*q the
\* pair is {p, q}.
C13_GcdShortcut ==
    /\ [][(/\ entry = "driver" /\ dr.state = "CheckGCD"
           /\ dr.x \in 2..(dr.N - 1)
           /\ GreatestCommonDivisor(dr.x, dr.N) \notin {1, dr.N})
            => /\ dr'.state = "Done"
               /\ dr'.factors = <<GreatestCommonDivisor(dr.x, dr.N),
                                 dr.N \div GreatestCommonDivisor(dr.x, dr.N)>>
               /\ \A pq \in Factorisations(dr.N) :
                     {dr'.factors[1], dr'.factors[2]} = {pq[1], pq[2]}
               /\ pc' = "driver" /\ fp' = fp /\ rc' = rc]_vars
    /\ [][(entry = "driver" /\ dr.state = "Done") => dr' = dr]_vars

\* N = 15 with first base 6: Done with (3, 5), the period finder never called
C13_Witness ==
    /\ entry = "driver" /\ dr.state = "Done"
    /\ dr.N = 15 /\ dr.x = 6 /\ dr.sampled = 1
    /\ dr.factors = <<3, 5>> /\ fp = FpIdle /\ rc = RcIdle

\* C14: an odd period in CheckParity and a RecoveryFailed in Recover each
\* lead to Retry, and Retry leads back to PickBase, where a fresh base is
\* sampled, while budget remains; Recover is entered only with an even
\* r >= 2, and InvalidPeriod occurs in no driver run.
C14_RetryAbsorbs ==
    /\ [][(entry = "driver" /\ dr.state = "CheckParity" /\ dr.r % 2 = 1)
            => dr'.state = "Retry"]_vars
    /\ [][(entry = "driver" /\ dr.state = "Recover" /\ pc = "raised")
            => (err = "RecoveryFailed" /\ dr'.state = "Retry")]_vars
    /\ [][(entry = "driver" /\ dr.state = "Retry" /\ dr.retries < dr.cap)
            => dr'.state = "PickBase"]_vars
    /\ [][(entry = "driver" /\ dr.state = "PickBase")
            => (dr'.state = "CheckGCD" /\ dr'.sampled = dr.sampled + 1
                /\ dr'.x \in 2..(dr.N - 1))]_vars
    /\ [](entry = "driver"
            => /\ err # "InvalidPeriod"
               /\ dr.state = "Recover" => (rc.r = dr.r /\ rc.r >= 2 /\ rc.r % 2 = 0))

\* N = 9, cap 2: one attempt ended in RecoveryFailed (its y is still in the
\* recovery frame), another in an odd period, and a third base is sampled
C14_Witness ==
    /\ entry = "driver" /\ dr.N = 9 /\ dr.state = "CheckGCD"
    /\ dr.retries = 2 /\ dr.sampled = 3
    /\ dr.r % 2 = 1 /\ rc.computed = {"y"} /\ rc.y = 8

----------------------------------------------------------------------------
(* Concrete results, and find_period_classical outside its precondition *)

\* C15: find_period_classical(2, 15) = 4, and recovery with y = 2^2 mod 15
\* = 4 gives gcd(3, 15) = 3 and gcd(5, 15) = 5, the factors (3, 5);
\* find_period_classical(2, 21) = 6, and recovery with y = 2^3 mod 21 = 8
\* gives gcd(7, 21) = 7 and gcd(9, 21) = 3, the factors (3, 7).
C15_ConcreteResults ==
    /\ (FpReturned /\ fp.x = 2 /\ fp.N = 15) => fp.n = 4
    /\ (FpReturned /\ fp.x = 2 /\ fp.N = 21) => fp.n = 6
    /\ (entry = "roundtrip" /\ fp.x = 2 /\ fp.N = 15 /\ RcEnded)
          => /\ pc = "returned" /\ rc.r = 4 /\ rc.y = 4
             /\ rc.dplus = 3 /\ rc.dminus = 5 /\ rc.divisors = {3, 5}
    /\ (entry = "roundtrip" /\ fp.x = 2 /\ fp.N = 21 /\ RcEnded)
          => /\ pc = "returned" /\ rc.r = 6 /\ rc.y = 8
             /\ rc.dplus = 7 /\ rc.dminus = 3 /\ rc.divisors = {3, 7}

\* the round trip for x = 2, N = 15 has returned its divisors
C15_Witness ==
    /\ entry = "roundtrip" /\ pc = "returned"
    /\ fp.x = 2 /\ fp.N = 15 /\ rc.computed = {"y", "gcd"}

\* C16: for N > 1 and a base x with 2 <= x <= N-1 that shares a factor
\* with N, the running product t is never 1, the loop is never left and
\* nothing is returned.
C16_SharedFactorNeverReturns ==
    (/\ entry = "find_period"
     /\ fp.N > 1 /\ 2 <= fp.x /\ fp.x <= fp.N - 1
     /\ ~Coprime(fp.x, fp.N))
        => fp.t # 1 /\ pc = "fp_loop" /\ FpCond(fp)

\* x = 6, N = 15: more than N iterations made, the loop still running
C16_Witness ==
    /\ entry = "find_period" /\ pc = "fp_loop"
    /\ fp.x = 6 /\ fp.N = 15 /\ fp.n > fp.N /\ fp.t = 6

\* C17: for N > 1 and an unreduced base x >= N coprime to N (x = N+1
\* included), find_period_classical(x, N) returns the smallest r >= 1 with
\* x^r mod N = 1, the multiplicative order of x modulo N.
C17_UnreducedBaseOrder ==
    (/\ entry = "find_period" /\ pc = "returned"
     /\ fp.N > 1 /\ fp.x >= fp.N /\ Coprime(fp.x, fp.N))
        => IsOrder(fp.n, fp.x, fp.N)

----------------------------------------------------------------------------
(* Properties of the driver, continued *)

\* C18: in every Done state, reached by the CheckGCD shortcut or through
\* Recover, the factor pair (a, b) has a*b = N, 1 < a < N and 1 < b < N.
C18_DoneIsSound ==
    (entry = "driver" /\ dr.state = "Done")
        => /\ Len(dr.factors) = 2
           /\ dr.factors[1] * dr.factors[2] = dr.N
           /\ 1 < dr.factors[1] /\ dr.factors[1] < dr.N
           /\ 1 < dr.factors[2] /\ dr.factors[2] < dr.N

\* N = 21, base 2: Done through Recover (gcd(2, 21) = 1) with the pair (7, 3)
C18_Witness ==
    /\ entry = "driver" /\ dr.state = "Done"
    /\ dr.N = 21 /\ dr.x = 2 /\ dr.g = 1 /\ dr.r = 6
    /\ dr.factors = <<7, 3>>

\* C19: every base is sampled in [2, N-1], and the period finder is
\* called only with a base coprime to N: its loop, once entered, is never
\* one that cannot end (it needs fewer than N iterations).
C19_PeriodFinderPrecondition ==
    (entry = "driver")
        => /\ dr.sampled > 0 => (2 <= dr.x /\ dr.x <= dr.N - 1)
           /\ (dr.state = "FindPeriod" \/ pc = "fp_loop")
                => /\ fp.x = dr.x /\ fp.N = dr.N
                   /\ Coprime(fp.x, fp.N)
                   /\ fp.n < fp.N
                   /\ IsOrder(fp.n, fp.x, fp.N) \/ FpCond(fp)

\* the driver is inside the loop of the period finder, for N = 21, x = 2
C19_Witness ==
    /\ entry = "driver" /\ dr.state = "FindPeriod" /\ pc = "fp_loop"
    /\ dr.N = 21 /\ dr.x = 2 /\ fp.n = 3 /\ fp.t = 8

----------------------------------------------------------------------------
(* Two sieve generators *)

\* the k smallest primes are exactly the elements of L, in increasing order
FirstPrimes(L) ==
    /\ StrictlyIncreasing(L)
    /\ Len(L) > 0 => Elements(L) = PrimesBelow(L[Len(L)] + 1)

\* C20: every invocation of sieve() has a map of its own and starts at 2:
\* two generators advanced in any interleaving each yield the sequence
\* 2, 3, 5, 7, ... they yield when run alone, and advancing one leaves the
\* other's map and position unchanged.
C20_GeneratorsIndependent ==
    /\ [](entry = "interleave"
            => \A i \in {1, 2} :
                  /\ FirstPrimes(il.out[i])
                  /\ IlGen(il, i) = il.solo[i])
    /\ [][entry = "interleave"
            => \A i \in {1, 2} :
                  (il'.out[i] # il.out[i] \/ il'.gen[i] # il.gen[i])
                     => \A j \in {1, 2} \ {i} : IlGen(il, j)' = IlGen(il, j)]_vars

\* the first generator has yielded 2, 3, 5, 7, 11 (9 went through its map),
\* the second, advanced in between, 2, 3, 5
C20_Witness ==
    /\ entry = "interleave"
    /\ il.out[1] = <<2, 3, 5, 7, 11>> /\ il.out[2] = <<2, 3, 5>>
    /\ il.running = 0

----------------------------------------------------------------------------
(* The map of sieve() *)

\* the generators at work with the values each has yielded so far: the one
\* behind get_primes_sieve (its values are those takewhile has taken and the
\* one it is looking at), and the two advanced side by side
Generators ==
    IF entry \in {"get_primes", "get_semiprime"}
    THEN {[s |-> sv,
           out |-> Elements(gp.L) \cup (IF sv.pc = "yield" THEN {sv.val} ELSE {})]}
    ELSE IF entry = "interleave"
    THEN {[s |-> IlGen(il, i), out |-> Elements(il.out[i])] : i \in {1, 2}}
    ELSE {}

\* the loop body has processed the odd candidate s.q: the generator is
\* suspended at yield q, or back at the for statement
Processed(s) == s.pc \in {"yield", "for"} /\ s.q >= 3

\* every key of D is an odd composite above q, under an odd prime yielded
\* before that divides it
KeysSound(s, out) ==
    \A k \in DOMAIN s.D :
        /\ IsOdd(k) /\ ~IsPrime(k) /\ k > s.q
        /\ IsOdd(s.D[k]) /\ IsPrime(s.D[k]) /\ s.D[k] \in out
        /\ Divides(s.D[k], k)

\* D holds exactly one entry per odd prime yielded so far
OneEntryPerPrime(s, out) ==
    /\ \A p \in out \ {2} : Cardinality({k \in DOMAIN s.D : s.D[k] = p}) = 1
    /\ Cardinality(DOMAIN s.D) = Cardinality(out \ {2})

\* the odd candidates up to q that were yielded are the primes among them
YieldedIffPrime(s, out) ==
    \A c \in 3..s.q : IsOdd(c) => (c \in out <=> IsPrime(c))

\* a step of the generator from frame s to frame t that ends the loop body
\* with an insertion leaves every entry s had in place
KeepsEntries(s, t) ==
    (t.pc \in {"yield", "for"} /\ t.D # s.D)
        => \A k \in DOMAIN s.D : k \in DOMAIN t.D /\ t.D[k] = s.D[k]

\* C21: after the loop body of sieve() has processed an odd candidate q,
\* every key of D is an odd composite greater than q whose value is an odd
\* prime already yielded that divides the key, D holds exactly one entry per
\* odd prime yielded so far, no insertion (that of q*q included) overwrites
\* an existing key, and a candidate is yielded exactly when it is prime.
C21_SieveMapInvariant ==
    /\ [](\A g \in Generators :
             Processed(g.s) => /\ KeysSound(g.s, g.out)
                               /\ OneEntryPerPrime(g.s, g.out)
                               /\ YieldedIffPrime(g.s, g.out))
    /\ [][/\ entry \in {"get_primes", "get_semiprime"} => KeepsEntries(sv, sv')
          /\ entry = "interleave"
                => \A i \in {1, 2} : KeepsEntries(IlGen(il, i), IlGen(il, i)')]_vars

\* the candidate 39 has been processed: its prime 3 went past 45, which the
\* prime 5 holds, to 51, and the map has its entry for each of 3, 5, ..., 37
C21_Witness ==
    /\ entry = "interleave"
    /\ IlGen(il, 1).pc = "for" /\ IlGen(il, 1).q = 39
    /\ 45 \in DOMAIN IlGen(il, 1).D /\ IlGen(il, 1).D[45] = 5
    /\ 51 \in DOMAIN IlGen(il, 1).D /\ IlGen(il, 1).D[51] = 3
    /\ Cardinality(DOMAIN IlGen(il, 1).D) = 11

----------------------------------------------------------------------------
(* The advance step of sieve() *)

\* the smallest multiple of s.p above s.q that is odd and not a key of s.D;
\* every second multiple is odd and at most as many are keys as D has
\* entries, so it lies among the first 2 * (|D| + 1) multiples above q
NextFree(s) ==
    LET C == {m \in (s.q + 1)..(s.q + 2 * s.p * (Cardinality(DOMAIN s.D) + 1)) :
                 Divides(s.p, m) /\ IsOdd(m) /\ m \notin DOMAIN s.D}
    IN  CHOOSE m \in C : \A m2 \in C : m <= m2

\* a step from frame s to frame t that takes a candidate which is a key of
\* D: the entry is removed, its prime is the generating prime p, and the
\* search starts
PopsEntry(s, t) ==
    (s.pc = "for" /\ s.it \in DOMAIN s.D)
        => /\ t.pc = "while" /\ t.q = s.it /\ t.p = s.D[s.it]
           /\ DOMAIN t.D = DOMAIN s.D \ {s.it}
           /\ \A k \in DOMAIN t.D : t.D[k] = s.D[k]

\* a step of the search: it moves x up, never past the free multiple, or
\* ends with p under that multiple and every other entry as it was
Searches(s, t) ==
    s.pc = "while"
        => /\ t.q = s.q /\ t.p = s.p
           /\ s.q \notin DOMAIN s.D
           /\ \/ /\ t.pc = "while"
                 /\ t.D = s.D
                 /\ s.x < t.x /\ t.x <= NextFree(s)
              \/ /\ t.pc = "for"
                 /\ DOMAIN t.D = DOMAIN s.D \cup {NextFree(s)}
                 /\ t.D[NextFree(s)] = s.p
                 /\ \A k \in DOMAIN s.D : t.D[k] = s.D[k]

\* the step is one of the advance of a composite candidate, and the values
\* yielded so far, outS before and outT after it, are the same
AdvanceStep(s, t, outS, outT) ==
    /\ PopsEntry(s, t)
    /\ Searches(s, t)
    /\ (t.pc = "while" \/ s.pc = "while") => t.pc # "yield" /\ outT = outS

\* C22: when the odd candidate q is a key of D with generating prime p, the
\* entry for q is removed and p is put back under the smallest multiple of p
\* that is greater than q, odd and not a key of D; the search for that
\* multiple ends, and nothing is yielded for q.
C22_SieveAdvanceStep ==
    /\ [][/\ entry \in {"get_primes", "get_semiprime"}
                => AdvanceStep(sv, sv', gp.L, gp.L')
          /\ entry = "interleave"
                => \A i \in {1, 2} :
                      AdvanceStep(IlGen(il, i), IlGen(il, i)',
                                  il.out[i], il.out[i]')]_vars
    /\ (entry \in {"get_primes", "get_semiprime"} /\ sv.pc = "while")
           ~> (sv.pc = "for")
    /\ \A i \in {1, 2} :
           (entry = "interleave" /\ IlGen(il, i).pc = "while")
               ~> (entry = "interleave" /\ IlGen(il, i).pc = "for")

\* the second generator has advanced the candidate 39: its entry is gone,
\* and its prime 3, after 42 (even) and 45 (a key, under 5), sits under 51;
\* the last value yielded is still 37
C22_Witness ==
    /\ entry = "interleave"
    /\ IlGen(il, 2).pc = "for" /\ IlGen(il, 2).q = 39 /\ IlGen(il, 2).p = 3
    /\ IlGen(il, 2).x = 51
    /\ 39 \notin DOMAIN IlGen(il, 2).D
    /\ 45 \in DOMAIN IlGen(il, 2).D /\ IlGen(il, 2).D[45] = 5
    /\ 51 \in DOMAIN IlGen(il, 2).D /\ IlGen(il, 2).D[51] = 3
    /\ il.out[2][Len(il.out[2])] = 37

====
